---------------------------- MODULE Spec2Model ----------------------------
(***************************************************************************)
(* Model of app.py: the lead qualification pipeline process_data, its two  *)
(* inner helpers format_name_and_create_message and format_brl, and the    *)
(* button handler that calls process_data.                                 *)
(*                                                                         *)
(* Text cells (names, monetary strings, attempts-sent cells) are sequences *)
(* of one-character strings, so that strip, split, replace, capitalize and *)
(* number parsing are computed character by character.  A missing cell     *)
(* (pandas NaN / None) is the one-element sequence NaN.                    *)
(***************************************************************************)
EXTENDS Integers, Sequences, FiniteSets, TLC

VARIABLES
    pc,            \* position inside process_data, its helpers or the button handler
    df_input,      \* the uploaded table: [columns, rows]
    df,            \* process_data's working table: sequence of [idx, row]
    metrics,       \* process_data's metrics dict: <<>> until line 39 creates it
    outro,         \* clientes_com_outro_status, one flag per row of df
    ret,           \* what process_data returned or raised
    ui,            \* what the button handler rendered
    name_cell,     \* a cell of df[COL_NAME] before line 105
    full_name,     \* argument of format_name_and_create_message
    full_name_str, \* its local full_name_str
    first_name,    \* its local first_name
    message,       \* its local message
    value,         \* argument of format_brl
    value_str,     \* its local value_str
    valor_brl      \* result of format_brl

pipeVars == <<df_input, df, metrics, outro, ret, ui>>
nameVars == <<name_cell, full_name, full_name_str, first_name, message>>
brlVars == <<value, value_str, valor_brl>>
vars == <<pc, pipeVars, nameVars, brlVars>>

----------------------------------------------------------------------------
(* Bounds of the enumerated inputs *)

MaxRows == 3
MaxNameLen == 3
MaxValueLen == 4

----------------------------------------------------------------------------
(* Column names, lines 13-22 *)

COL_ID == "Codigo Cliente"
COL_NAME == "Cliente"
COL_PHONE == "Fone Fixo"
COL_FILTER == "Quant. Pedidos Enviados"
COL_STATUS == "Status"
COL_ORDER_ID == "N. Pedido"
COL_TOTAL_VALUE == "Valor Total"
COL_OUT_NAME == "Cliente_Formatado"
COL_OUT_MSG == "Mensagem_Personalizada"
COL_VALOR_BRL == "Valor_BRL"

required_cols ==
    <<COL_ID, COL_NAME, COL_PHONE, COL_FILTER, COL_STATUS, COL_ORDER_ID,
      COL_TOTAL_VALUE>>

PedidoSalvo == "Pedido Salvo"

----------------------------------------------------------------------------
(* Generic sequence helpers *)

Range(s) == {s[i] : i \in 1..Len(s)}

RECURSIVE SelectIdx(_, _, _)
\* the subsequence of s at the positions i (in order) for which keep[i]
SelectIdx(s, keep, i) ==
    IF i > Len(s) THEN <<>>
    ELSE (IF keep[i] THEN <<s[i]>> ELSE <<>>) \o SelectIdx(s, keep, i + 1)

RECURSIVE Strings(_, _)
\* all sequences over alphabet of length at most n
Strings(alphabet, n) ==
    IF n = 0 THEN {<<>>}
    ELSE LET shorter == Strings(alphabet, n - 1)
         IN  shorter \cup {Append(s, c) : s \in shorter, c \in alphabet}

NaN == <<"<NaN>">>


----------------------------------------------------------------------------
(* pd.to_numeric(..., errors='coerce').fillna(-1), line 53 *)

DigitChars == <<"0", "1", "2", "3", "4", "5", "6", "7", "8", "9">>

IsDigit(c) == c \in Range(DigitChars)

DigitVal(c) == (CHOOSE i \in 1..Len(DigitChars) : DigitChars[i] = c) - 1

RECURSIVE DigitsVal(_)
\* the value of a non-empty sequence of decimal digits
DigitsVal(s) ==
    IF Len(s) = 0 THEN 0
    ELSE 10 * DigitsVal(SubSeq(s, 1, Len(s) - 1)) + DigitVal(s[Len(s)])

AllDigits(s) == Len(s) > 0 /\ \A i \in 1..Len(s) : IsDigit(s[i])

\* errors='coerce': an optionally signed run of digits parses to its value,
\* a missing cell or any other text (of the cells enumerated here) to NaN
to_numeric(cell) ==
    IF cell = NaN THEN [nan |-> TRUE, val |-> 0]
    ELSE IF AllDigits(cell) THEN [nan |-> FALSE, val |-> DigitsVal(cell)]
    ELSE IF Len(cell) > 1 /\ cell[1] = "-" /\ AllDigits(Tail(cell))
         THEN [nan |-> FALSE, val |-> 0 - DigitsVal(Tail(cell))]
    ELSE [nan |-> TRUE, val |-> 0]

FILL_VALUE == -1

fillna(x, fill) == IF x.nan THEN fill ELSE x.val
\* the variant that fills unparsable cells with 0
NormalizeFilterZero(cell) == fillna(to_numeric(cell), 0)

NormalizeFilter(cell) == fillna(to_numeric(cell), FILL_VALUE)

----------------------------------------------------------------------------
(* The inner helper format_name_and_create_message, lines 79-100 *)

Whitespace == {" ", "\t", "\n"}

RECURSIVE LStrip(_)
LStrip(s) ==
    IF Len(s) > 0 /\ s[1] \in Whitespace THEN LStrip(Tail(s)) ELSE s

RECURSIVE RStrip(_)
RStrip(s) ==
    IF Len(s) > 0 /\ s[Len(s)] \in Whitespace
    THEN RStrip(SubSeq(s, 1, Len(s) - 1))
    ELSE s

\* str.strip(), line 84
Strip(s) == RStrip(LStrip(s))

\* s.split(' ')[0], line 86: everything before the first space character
SplitFirst(s) ==
    IF \E i \in 1..Len(s) : s[i] = " "
    THEN SubSeq(s, 1, (CHOOSE i \in 1..Len(s) :
                          s[i] = " " /\ \A j \in 1..(i - 1) : s[j] # " ") - 1)
    ELSE s

LowerChars == <<"a", "b", "c", "d", "i", "l", "m", "n", "o", "r", "s", "v">>
UpperChars == <<"A", "B", "C", "D", "I", "L", "M", "N", "O", "R", "S", "V">>

Upper(c) ==
    IF c \in Range(LowerChars)
    THEN UpperChars[CHOOSE i \in 1..Len(LowerChars) : LowerChars[i] = c]
    ELSE c

Lower(c) ==
    IF c \in Range(UpperChars)
    THEN LowerChars[CHOOSE i \in 1..Len(UpperChars) : UpperChars[i] = c]
    ELSE c

\* the variant that forces the first character only
CapitalizeFirstOnly(s) ==
    [i \in 1..Len(s) |-> IF i = 1 THEN Upper(s[i]) ELSE s[i]]

\* str.capitalize(), line 87
Capitalize(s) ==
    [i \in 1..Len(s) |-> IF i = 1 THEN Upper(s[i]) ELSE Lower(s[i])]

Cliente == <<"C", "l", "i", "e", "n", "t", "e">>

\* lines 81-87: the fallback for a falsy name, else strip, split, capitalize
FirstName(name) ==
    IF name = <<>> THEN Cliente
    ELSE Capitalize(SplitFirst(Strip(name)))

\* lines 90-97: the f-string with its one substitution point
Message(first) ==
    <<"Ola ", first, "! Aqui e a Sofia, sua consultora exclusiva da Jumbo CDP! ...">>

format_name_and_create_message(name) == <<FirstName(name), Message(FirstName(name))>>

\* df[COL_NAME].astype(str).fillna(''), line 105.  A text cell is kept.  A
\* missing cell becomes the text 'nan' where astype(str) stringifies NaN
\* (legacy object dtype) and stays missing, then filled with '', where
\* astype(str) yields the missing-value-preserving string dtype.
NameAsStr(cell, legacy) ==
    IF cell = NaN THEN (IF legacy THEN <<"n", "a", "n">> ELSE <<>>) ELSE cell

----------------------------------------------------------------------------
(* The inner helper format_brl, lines 118-123 *)

RECURSIVE RemoveCurrencyMark(_)
\* .replace('R$', ''): every non-overlapping occurrence, left to right
RemoveCurrencyMark(s) ==
    IF Len(s) = 0 THEN <<>>
    ELSE IF Len(s) >= 2 /\ s[1] = "R" /\ s[2] = "$"
         THEN RemoveCurrencyMark(SubSeq(s, 3, Len(s)))
         ELSE <<s[1]>> \o RemoveCurrencyMark(Tail(s))

\* .replace(c, '')
RemoveChar(s, c) == SelectSeq(s, LAMBDA x : x # c)

\* .replace(a, b) for single characters
ReplaceChar(s, a, b) == [i \in 1..Len(s) |-> IF s[i] = a THEN b ELSE s[i]]

\* float(text) on decimal literals: surrounding whitespace is ignored, then an
\* optional sign, digits with at most one point and at least one digit.
\* ok = FALSE stands for the ValueError.  The number is kept as its digits.
ParseFloat(s) ==
    LET t == Strip(s)
        signed == Len(t) > 0 /\ t[1] \in {"+", "-"}
        body == IF signed THEN Tail(t) ELSE t
        dots == {i \in 1..Len(body) : body[i] = "."}
        dot == IF dots = {} THEN Len(body) + 1 ELSE CHOOSE i \in dots : TRUE
        ip == SubSeq(body, 1, dot - 1)
        fp == SubSeq(body, dot + 1, Len(body))
    IN  [ok   |-> /\ Cardinality(dots) <= 1
                  /\ \A i \in 1..Len(ip) : IsDigit(ip[i])
                  /\ \A i \in 1..Len(fp) : IsDigit(fp[i])
                  /\ Len(ip) + Len(fp) > 0,
         neg  |-> signed /\ t[1] = "-",
         int  |-> ip,
         frac |-> fp]

RECURSIVE StripZeros(_)
StripZeros(d) ==
    IF Len(d) > 1 /\ d[1] = "0" THEN StripZeros(Tail(d))
    ELSE IF Len(d) = 0 THEN <<"0">> ELSE d

\* f"{x:.2f}": sign, integer digits without grouping, a point, two decimals.
\* (No input enumerated here has a nonzero digit past the second decimal
\* that would round the second decimal up.)
FormatFixed2(x) ==
    (IF x.neg THEN <<"-">> ELSE <<>>)
        \o StripZeros(x.int) \o <<".">>
        \o SubSeq(x.frac \o <<"0", "0">>, 1, 2)

\* line 120: str(value).replace('R$', '').replace('.', '').replace(',', '.')
CleanValue(v) == ReplaceChar(RemoveChar(RemoveCurrencyMark(v), "."), ",", ".")

\* line 121: f"R$ {float(value_str):.2f}".replace('.', ',')
RenderValue(text) ==
    ReplaceChar(<<"R", "$", " ">> \o FormatFixed2(ParseFloat(text)), ".", ",")

\* lines 118-123
format_brl(v) ==
    IF ParseFloat(CleanValue(v)).ok THEN RenderValue(CleanValue(v)) ELSE v

----------------------------------------------------------------------------
(* Input tables.  Row i of an uploaded table is order number i; its      *)
(* customer, status and attempts-sent cell range over the sets below; the *)
(* name and phone are the customer's and the order value alternates.      *)

CustomerIds == {1, 2}

Statuses == {PedidoSalvo, "Pedido Cancelado"}

AttemptCells == {<<"0">>, <<"2">>, <<"x">>, NaN}

CustomerName(id) ==
    IF id = 1 THEN <<" ", "m", "a", "r", "i", "a", " ", "S", "I", "L", "V", "A", " ">>
    ELSE NaN

CustomerPhone(id) ==
    IF id = 1 THEN <<"(", "1", "1", ")", " ", "9", "1", "2", "3">> ELSE NaN

OrderValue(i) ==
    IF i % 2 = 1
    THEN <<"R", "$", " ", "1", ".", "2", "3", "4", ",", "5", "0">>
    ELSE <<"n", "/", "a">>

FullRow(i, id, status, cell) ==
    [c \in Range(required_cols) |->
        CASE c = COL_ID -> id
          [] c = COL_NAME -> CustomerName(id)
          [] c = COL_PHONE -> CustomerPhone(id)
          [] c = COL_FILTER -> cell
          [] c = COL_STATUS -> status
          [] c = COL_ORDER_ID -> i
          [] c = COL_TOTAL_VALUE -> OrderValue(i)]

Restrict(f, S) == [c \in S |-> f[c]]

\* the table of n rows carrying the columns cols with the given cells
Table(cols, n, ids, sts, cells) ==
    [columns |-> cols,
     rows |-> [i \in 1..n |-> Restrict(FullRow(i, ids[i], sts[i], cells[i]), cols)]]

----------------------------------------------------------------------------
(* process_data, lines 27-127, one action per numbered step of the code *)

With(r, k, v) == [c \in DOMAIN r \cup {k} |-> IF c = k THEN v ELSE r[c]]

Col(table, c) == [i \in 1..Len(table) |-> table[i].row[c]]
\* the variant that reports only the first missing column
MissingFirstOnly(columns) ==
    SubSeq(SelectSeq(required_cols, LAMBDA c : c \notin columns), 1, 1)

Missing(columns) == SelectSeq(required_cols, LAMBDA c : c \notin columns)
\* the variant keep='last'
KeepLast(table) ==
    [i \in 1..Len(table) |->
        ~ \E j \in (i + 1)..Len(table) : table[j].row[COL_ID] = table[i].row[COL_ID]]

\* df.drop_duplicates(subset=[COL_ID], keep='first'), line 46
KeepFirst(table) ==
    [i \in 1..Len(table) |->
        ~ \E j \in 1..(i - 1) : table[j].row[COL_ID] = table[i].row[COL_ID]]

drop_duplicates(table) == SelectIdx(table, KeepFirst(table), 1)

\* df.groupby(COL_ID)[COL_ID].transform(lambda x:
\*     tem_outro_status_series.loc[x.index].any()), lines 56-57: per row, whether
\* any row of its customer's group in table has another status.  With no
\* rows there are no groups and the result is empty.  (Customer ids are never
\* missing in the tables enumerated, so every row belongs to a group.)
clientes_com_outro_status(table) ==
    LET tem_outro_status_series ==
            [i \in 1..Len(table) |-> table[i].row[COL_STATUS] # PedidoSalvo]
    IN  [i \in 1..Len(table) |->
            \E j \in 1..Len(table) :
                /\ table[j].row[COL_ID] = table[i].row[COL_ID]
                /\ tem_outro_status_series[j]]
\* the variant that forgets the negation of clientes_com_outro_status
QualifiedMaskNotNegated(table, outro_status) ==
    [i \in 1..Len(table) |->
        /\ table[i].row[COL_STATUS] = PedidoSalvo
        /\ outro_status[i]
        /\ table[i].row[COL_FILTER] = 0]

\* the boolean mask of lines 60-64
QualifiedMask(table, outro_status) ==
    [i \in 1..Len(table) |->
        /\ table[i].row[COL_STATUS] = PedidoSalvo
        /\ ~ outro_status[i]
        /\ table[i].row[COL_FILTER] = 0]

\* reset_index(drop=True), line 69
reset_index(table) == [i \in 1..Len(table) |-> [idx |-> i, row |-> table[i].row]]

\* len(df_input) - len(df_qualified), line 66
RemovedFilter(input_rows, qualified) == Len(input_rows) - Len(qualified)

\* lines 31-43: copy, required-column check, metrics dict
Validate ==
    /\ pc = "validate"
    /\ df' = [i \in 1..Len(df_input.rows) |-> [idx |-> i, row |-> df_input.rows[i]]]
    /\ IF Missing(df_input.columns) # <<>>
       THEN /\ ret' = [kind |-> "ValueError", missing |-> Missing(df_input.columns)]
            /\ pc' = "raised"
            /\ UNCHANGED metrics
       ELSE /\ metrics' = <<[original_count |-> Len(df_input.rows),
                            removed_duplicates |-> 0,
                            removed_filter |-> 0]>>
            /\ pc' = "dedup"
            /\ UNCHANGED ret
    /\ UNCHANGED <<df_input, outro, ui, nameVars, brlVars>>

\* lines 46-48
Dedup ==
    /\ pc = "dedup"
    /\ df' = drop_duplicates(df)
    /\ metrics' = <<[metrics[1] EXCEPT
                        !.removed_duplicates = Len(df) - Len(drop_duplicates(df))]>>
    /\ pc' = "normalize"
    /\ UNCHANGED <<df_input, outro, ret, ui, nameVars, brlVars>>

\* line 53
Normalize ==
    /\ pc = "normalize"
    /\ df' = [i \in 1..Len(df) |->
                [df[i] EXCEPT !.row = With(@, COL_FILTER, NormalizeFilter(@[COL_FILTER]))]]
    /\ pc' = "status"
    /\ UNCHANGED <<df_input, metrics, outro, ret, ui, nameVars, brlVars>>

\* lines 56-57
StatusScan ==
    /\ pc = "status"
    /\ outro' = clientes_com_outro_status(df)
    /\ pc' = "filter"
    /\ UNCHANGED <<df_input, df, metrics, ret, ui, nameVars, brlVars>>

\* lines 60-69
Filter ==
    /\ pc = "filter"
    /\ LET df_qualified == SelectIdx(df, QualifiedMask(df, outro), 1)
       IN  /\ metrics' = <<[metrics[1] EXCEPT
                              !.removed_filter = RemovedFilter(df_input.rows, df_qualified)]>>
           /\ df' = reset_index(df_qualified)
    /\ pc' = "check_empty"
    /\ UNCHANGED <<df_input, outro, ret, ui, nameVars, brlVars>>
\* the variant without the df.empty guard: temp_df[0] on an empty frame
\* raises KeyError, which the handler does not catch
ReturnEmptyUnguarded ==
    /\ pc = "check_empty"
    /\ df = <<>>
    /\ ret' = [kind |-> "KeyError"]
    /\ pc' = "raised"
    /\ UNCHANGED <<df_input, df, metrics, outro, ui, nameVars, brlVars>>

\* lines 72-73
ReturnEmpty ==
    /\ pc = "check_empty"
    /\ df = <<>>
    /\ ret' = [kind |-> "value", df |-> df, metrics |-> metrics[1]]
    /\ pc' = "returned"
    /\ UNCHANGED <<df_input, df, metrics, outro, ui, nameVars, brlVars>>

\* lines 105-115
Compose ==
    /\ pc = "check_empty"
    /\ df # <<>>
    /\ \E legacy \in BOOLEAN :
          df' = [i \in 1..Len(df) |->
                    LET name == NameAsStr(df[i].row[COL_NAME], legacy)
                        data == format_name_and_create_message(name)
                    IN  [df[i] EXCEPT !.row =
                            With(With(With(@, COL_NAME, name),
                                      COL_OUT_NAME, data[1]), COL_OUT_MSG, data[2])]]
    /\ pc' = "format_values"
    /\ UNCHANGED <<df_input, metrics, outro, ret, ui, nameVars, brlVars>>

\* lines 125-127
FormatValues ==
    /\ pc = "format_values"
    /\ LET out == [i \in 1..Len(df) |->
                     [df[i] EXCEPT !.row =
                         With(@, COL_VALOR_BRL, format_brl(@[COL_TOTAL_VALUE]))]]
       IN  /\ df' = out
           /\ ret' = [kind |-> "value", df |-> out, metrics |-> metrics[1]]
    /\ pc' = "returned"
    /\ UNCHANGED <<df_input, metrics, outro, ui, nameVars, brlVars>>

----------------------------------------------------------------------------
(* The button handler around the call, lines 160-180 *)

\* lines 164-166: st.error with the message, st.stop()
ShowError ==
    /\ pc = "raised"
    /\ ret.kind = "ValueError"
    /\ ui' = [kind |-> "error", missing |-> ret.missing]
    /\ pc' = "stopped"
    /\ UNCHANGED <<df_input, df, metrics, outro, ret, nameVars, brlVars>>

\* lines 169-180: the three metric widgets and the lead count
ShowResults ==
    /\ pc = "returned"
    /\ ui' = [kind |-> "results",
              original_count |-> ret.metrics.original_count,
              removed_duplicates |-> ret.metrics.removed_duplicates,
              removed_filter |-> ret.metrics.removed_filter,
              total_ready |-> Len(ret.df)]
    /\ pc' = "shown"
    /\ UNCHANGED <<df_input, df, metrics, outro, ret, nameVars, brlVars>>

AllColumns == Range(required_cols)

\* the table read from the uploaded file, lines 140-146, before the button
Init ==
    /\ \E n \in 0..MaxRows :
          \E cols \in IF n <= 1 THEN SUBSET AllColumns ELSE {AllColumns} :
             \E ids \in [1..n -> CustomerIds], sts \in [1..n -> Statuses],
                cells \in [1..n -> AttemptCells] :
                df_input = Table(cols, n, ids, sts, cells)
    /\ pc = "validate"
    /\ df = <<>>
    /\ metrics = <<>>
    /\ outro = <<>>
    /\ ret = [kind |-> "none"]
    /\ ui = [kind |-> "idle"]
    /\ name_cell = NaN
    /\ full_name = <<>>
    /\ full_name_str = <<>>
    /\ first_name = <<>>
    /\ message = <<>>
    /\ value = <<>>
    /\ value_str = <<>>
    /\ valor_brl = <<>>

Next ==
    \/ Validate
    \/ Dedup
    \/ Normalize
    \/ StatusScan
    \/ Filter
    \/ ReturnEmpty
    \/ Compose
    \/ FormatValues
    \/ ShowError
    \/ ShowResults

Spec == Init /\ [][Next]_vars

----------------------------------------------------------------------------
(* Properties of process_data *)

Returned == ret.kind = "value"

RawRows == df_input.rows

\* positions of the raw records of customer id
RawRowsOf(id) == {i \in 1..Len(RawRows) : RawRows[i][COL_ID] = id}

FirstRawRowOf(id) == CHOOSE i \in RawRowsOf(id) : \A j \in RawRowsOf(id) : i <= j

\* a cell holding no number: missing, or with a character that is neither a
\* digit nor a sign
Unparsable(cell) ==
    cell = NaN \/ \E i \in 1..Len(cell) : ~ IsDigit(cell[i]) /\ cell[i] # "-"

\* C1: the metrics partition the input: original_count equals
\* removed_duplicates + removed_filter + the number of qualified leads,
\* also for tables in which a customer_id occurs more than once.
C1_MetricsPartition ==
    Returned =>
        ret.metrics.original_count =
            ret.metrics.removed_duplicates + ret.metrics.removed_filter + Len(ret.df)

\* C2: every raw record of a qualified customer has status exactly
\* 'Pedido Salvo' (status exclusivity over the pre-deduplication table).
C2_StatusExclusive ==
    Returned =>
        \A k \in 1..Len(ret.df) :
            \A i \in RawRowsOf(ret.df[k].row[COL_ID]) :
                RawRows[i][COL_STATUS] = PedidoSalvo

\* C3: every qualified lead has normalized attempts-sent count 0; a cell that
\* cannot be parsed as a number is normalized to -1 and its record is never a
\* qualified lead.
C3_QualifiedAttemptsZero ==
    /\ pc \in {"status", "filter"} =>
          \A k \in 1..Len(df) :
              Unparsable(RawRows[df[k].idx][COL_FILTER]) => df[k].row[COL_FILTER] = -1
    /\ Returned =>
          \A k \in 1..Len(ret.df) :
              /\ ret.df[k].row[COL_FILTER] = 0
              /\ ~ Unparsable(RawRows[ret.df[k].row[COL_ORDER_ID]][COL_FILTER])

C3_Witness ==
    /\ Returned
    /\ Len(ret.df) >= 1
    /\ \E i \in 1..Len(RawRows) : RawRows[i][COL_FILTER] = <<"x">>
    /\ \E i \in 1..Len(RawRows) : RawRows[i][COL_FILTER] = NaN

\* C4: the qualified list has at most one lead per customer_id, and each lead
\* is the first record of its customer in the row order of the input table.
C4_FirstRecordPerCustomer ==
    Returned =>
        /\ \A k, l \in 1..Len(ret.df) :
              ret.df[k].row[COL_ID] = ret.df[l].row[COL_ID] => k = l
        /\ \A k \in 1..Len(ret.df) :
              LET lead == ret.df[k].row
                  raw == RawRows[FirstRawRowOf(lead[COL_ID])]
              IN  /\ lead[COL_ORDER_ID] = raw[COL_ORDER_ID]
                  /\ lead[COL_STATUS] = raw[COL_STATUS]
                  /\ lead[COL_PHONE] = raw[COL_PHONE]
                  /\ lead[COL_TOTAL_VALUE] = raw[COL_TOTAL_VALUE]

C4_Witness ==
    /\ Returned
    /\ \E k \in 1..Len(ret.df) :
          \E i \in RawRowsOf(ret.df[k].row[COL_ID]) :
              /\ i > FirstRawRowOf(ret.df[k].row[COL_ID])
              /\ RawRows[i][COL_FILTER] # RawRows[FirstRawRowOf(ret.df[k].row[COL_ID])][COL_FILTER]

MissingColumns == AllColumns \ df_input.columns

\* C5: with a required column absent, process_data raises an error naming
\* every missing required column, before deduplication, filtering or metrics:
\* no metrics and no lead list are produced, and the handler shows the error.
C5_SchemaErrorNamesAll ==
    (MissingColumns # {} /\ pc # "validate") =>
        /\ pc \in {"raised", "stopped"}
        /\ ret.kind = "ValueError"
        /\ Range(ret.missing) = MissingColumns
        /\ Len(ret.missing) = Cardinality(MissingColumns)
        /\ metrics = <<>>
        /\ outro = <<>>
        /\ \A i \in 1..Len(df) : df[i].row = RawRows[i]
        /\ pc = "stopped" => (ui.kind = "error" /\ Range(ui.missing) = MissingColumns)

C5_Witness ==
    /\ pc = "stopped"
    /\ ui.kind = "error"
    /\ Cardinality(MissingColumns) >= 2
    /\ Len(RawRows) = 1

C9_EligibleCustomerQualifies ==
    Returned =>
        \A id \in CustomerIds :
            ( /\ RawRowsOf(id) # {}
              /\ \A i \in RawRowsOf(id) : RawRows[i][COL_STATUS] = PedidoSalvo
              /\ NormalizeFilter(RawRows[FirstRawRowOf(id)][COL_FILTER]) = 0 )
            => \E k \in 1..Len(ret.df) : ret.df[k].row[COL_ID] = id

C9_Witness ==
    /\ Returned
    /\ \E k \in 1..Len(ret.df) :
          /\ Cardinality(RawRowsOf(ret.df[k].row[COL_ID])) >= 2
          /\ \A i \in RawRowsOf(ret.df[k].row[COL_ID]) : RawRows[i][COL_STATUS] = PedidoSalvo

----------------------------------------------------------------------------
(* format_name_and_create_message applied to one name cell, lines 79-108 *)

NameAlphabet == {"m", "D", " ", "\t"}

NameExamples ==
    { <<"m", "c", "D", "o", "n", "a", "l", "d">>,
      <<" ", " ", "m", "a", "r", "i", "a", " ", "S", "I", "L", "V", "A", " ">> }

NameCells == {NaN} \cup Strings(NameAlphabet, MaxNameLen) \cup NameExamples

\* lines 105 and 108: the cell as a string, passed to the helper
AsTypeStr ==
    /\ pc = "astype"
    /\ \E legacy \in BOOLEAN : full_name' = NameAsStr(name_cell, legacy)
    /\ pc' = "name_check"
    /\ UNCHANGED <<pipeVars, brlVars, name_cell, full_name_str, first_name, message>>

\* lines 81-82
NameFallback ==
    /\ pc = "name_check"
    /\ full_name = <<>>
    /\ first_name' = Cliente
    /\ pc' = "message"
    /\ UNCHANGED <<pipeVars, brlVars, name_cell, full_name, full_name_str, message>>

\* lines 83-86
StripSplit ==
    /\ pc = "name_check"
    /\ full_name # <<>>
    /\ full_name_str' = Strip(full_name)
    /\ first_name' = SplitFirst(Strip(full_name))
    /\ pc' = "capitalize"
    /\ UNCHANGED <<pipeVars, brlVars, name_cell, full_name, message>>

\* line 87
CapitalizeName ==
    /\ pc = "capitalize"
    /\ first_name' = Capitalize(first_name)
    /\ pc' = "message"
    /\ UNCHANGED <<pipeVars, brlVars, name_cell, full_name, full_name_str, message>>

\* lines 90-100
RenderMessage ==
    /\ pc = "message"
    /\ message' = Message(first_name)
    /\ pc' = "name_done"
    /\ UNCHANGED <<pipeVars, brlVars, name_cell, full_name, full_name_str, first_name>>

IdlePipeline ==
    /\ df_input = [columns |-> AllColumns, rows |-> <<>>]
    /\ df = <<>>
    /\ metrics = <<>>
    /\ outro = <<>>
    /\ ret = [kind |-> "none"]
    /\ ui = [kind |-> "idle"]

InitName ==
    /\ pc = "astype"
    /\ IdlePipeline
    /\ name_cell \in NameCells
    /\ full_name = <<>>
    /\ full_name_str = <<>>
    /\ first_name = <<>>
    /\ message = <<>>
    /\ value = <<>>
    /\ value_str = <<>>
    /\ valor_brl = <<>>

NextName ==
    \/ AsTypeStr
    \/ NameFallback
    \/ StripSplit
    \/ CapitalizeName
    \/ RenderMessage

SpecName == InitName /\ [][NextName]_vars

----------------------------------------------------------------------------
(* format_brl applied to one monetary cell, lines 118-125 *)

ValueAlphabet == {"0", "1", ".", ",", "R", "$", " "}

ValueExamples ==
    { <<"R", "$", " ", "1", ".", "2", "3", "4", ",", "5", "0">>,
      <<"n", "/", "a">> }

ValueCells == Strings(ValueAlphabet, MaxValueLen) \cup ValueExamples

\* line 120
BrlClean ==
    /\ pc = "brl"
    /\ value_str' = CleanValue(value)
    /\ pc' = "brl_parse"
    /\ UNCHANGED <<pipeVars, nameVars, value, valor_brl>>

\* line 121
BrlRender ==
    /\ pc = "brl_parse"
    /\ ParseFloat(value_str).ok
    /\ valor_brl' = RenderValue(value_str)
    /\ pc' = "brl_done"
    /\ UNCHANGED <<pipeVars, nameVars, value, value_str>>

\* lines 122-123
BrlFallback ==
    /\ pc = "brl_parse"
    /\ ~ ParseFloat(value_str).ok
    /\ valor_brl' = value
    /\ pc' = "brl_done"
    /\ UNCHANGED <<pipeVars, nameVars, value, value_str>>

InitBrl ==
    /\ pc = "brl"
    /\ IdlePipeline
    /\ name_cell = NaN
    /\ full_name = <<>>
    /\ full_name_str = <<>>
    /\ first_name = <<>>
    /\ message = <<>>
    /\ value \in ValueCells
    /\ value_str = <<>>
    /\ valor_brl = <<>>

NextBrl ==
    \/ BrlClean
    \/ BrlRender
    \/ BrlFallback

SpecBrl == InitBrl /\ [][NextBrl]_vars

----------------------------------------------------------------------------
(* Properties of the display first name *)

IsBlank(cell) == cell = NaN \/ \A i \in 1..Len(cell) : cell[i] \in Whitespace

\* the first whitespace-delimited token of the trimmed text
FirstToken(text) ==
    LET t == Strip(text)
        stops == {i \in 1..Len(t) : t[i] \in Whitespace}
        stop == IF stops = {} THEN Len(t) + 1
                ELSE CHOOSE i \in stops : \A j \in stops : i <= j
    IN  SubSeq(t, 1, stop - 1)

SameLetters(a, b) ==
    Len(a) = Len(b) /\ \A i \in 1..Len(a) : Lower(a[i]) = Lower(b[i])

\* C7: the display first name is never empty: it is the first
\* whitespace-delimited token of the trimmed full name, and the literal
\* 'Cliente' when the full name is empty, missing or only whitespace.
C7_DisplayNameNonEmpty ==
    pc = "name_done" =>
        /\ first_name # <<>>
        /\ IsBlank(name_cell) => first_name = Cliente
        /\ ~ IsBlank(name_cell) => SameLetters(first_name, FirstToken(name_cell))

\* C10 as stated: the display first name is the extracted token with only its
\* first character forced to uppercase, the other characters unchanged.
C10_RestUnchanged ==
    [][pc = "capitalize" =>
          /\ Len(first_name') = Len(first_name)
          /\ \A i \in 1..Len(first_name) :
                first_name'[i] = IF i = 1 THEN Upper(first_name[i]) ELSE first_name[i]]_vars

\* C10 as amended: the display first name is the extracted token with its
\* first character uppercased and every other character lowercased.
C10_RestLowercased ==
    [][pc = "capitalize" =>
          /\ Len(first_name') = Len(first_name)
          /\ \A i \in 1..Len(first_name) :
                /\ SameLetters(<<first_name'[i]>>, <<first_name[i]>>)
                /\ i = 1 => first_name'[i] \notin Range(LowerChars)
                /\ i > 1 => first_name'[i] \notin Range(UpperChars)]_vars

C10_Witness ==
    /\ pc = "name_done"
    /\ name_cell = <<"m", "c", "D", "o", "n", "a", "l", "d">>
    /\ first_name = <<"M", "c", "d", "o", "n", "a", "l", "d">>

----------------------------------------------------------------------------
(* Properties of format_brl *)

RECURSIVE GroupThousands(_)
\* integer digits with a period before every group of three
GroupThousands(d) ==
    IF Len(d) <= 3 THEN d
    ELSE GroupThousands(SubSeq(d, 1, Len(d) - 3)) \o <<".">> \o SubSeq(d, Len(d) - 2, Len(d))

\* the Brazilian rendering of a parsed amount
BrazilianRendering(x) ==
    <<"R", "$", " ">> \o (IF x.neg THEN <<"-">> ELSE <<>>)
        \o GroupThousands(StripZeros(x.int)) \o <<",">>
        \o SubSeq(x.frac \o <<"0", "0">>, 1, 2)

\* C8: a parsable Brazilian monetary string is rendered as 'R$ ', the amount
\* with period thousands separators, a decimal comma and two decimals, so
\* 'R$ 1.234,50' is rendered as 'R$ 1.234,50'; an unparsable string is
\* returned unchanged.
C8_BrazilianRoundTrip ==
    pc = "brl_done" =>
        IF ParseFloat(CleanValue(value)).ok
        THEN valor_brl = BrazilianRendering(ParseFloat(CleanValue(value)))
        ELSE valor_brl = value

============================================================================
